---- MODULE Spec2Model ----
(***************************************************************************)
(* Model of cumulus13/gitignore: src/gitignore/gitignore.py (main, the     *)
(* entries normalizer, GitignoreGenerator.generate / fetch_template /      *)
(* read_gitignore).  src/gitignore.py holds an older copy of the same      *)
(* generate / fetch_template (no positional entries, no --read).           *)
(*                                                                         *)
(* A Python str is a sequence of one-character strings, a list of str is a *)
(* sequence of such sequences, so that split / strip / join / file         *)
(* concatenation are computed character by character.                      *)
(***************************************************************************)
EXTENDS Naturals, Sequences, FiniteSets

\* ------------------------------------------------------------------ bounds
\* Longest positional entries string enumerated exhaustively (SpecNorm).
MaxLen == 3

\* ----------------------------------------------------- Python str methods
\* str.isspace() characters that occur in the model's alphabets.
Whitespace == {" ", "\t", "\n", "\r", "\f"}

\* Line boundaries of str.splitlines() that occur in the model's alphabets
\* ("\r\n" counts as one boundary, see SplitLines).
LineBreaks == {"\n", "\r", "\f"}

\* c in s
Contains(s, c) == \E i \in 1..Len(s) : s[i] = c

\* Index of the first character of s that belongs to set S (0 if none).
FirstIn(s, S) ==
  IF \E i \in 1..Len(s) : s[i] \in S
  THEN CHOOSE i \in 1..Len(s) : s[i] \in S /\ \A j \in 1..(i-1) : s[j] \notin S
  ELSE 0

\* s.replace(old, new) for one-character old and new.
Replace(s, old, new) == [i \in 1..Len(s) |-> IF s[i] = old THEN new ELSE s[i]]

\* s.split(sep) for a one-character sep: empty fields are kept.
RECURSIVE Split(_, _)
Split(s, sep) ==
  LET i == FirstIn(s, {sep}) IN
  IF i = 0 THEN <<s>>
  ELSE <<SubSeq(s, 1, i-1)>> \o Split(SubSeq(s, i+1, Len(s)), sep)

\* s.splitlines(): no entry for the text after a final line boundary.
RECURSIVE SplitLines(_)
SplitLines(s) ==
  LET i == FirstIn(s, LineBreaks) IN
  IF s = <<>> THEN <<>>
  ELSE IF i = 0 THEN <<s>>
  ELSE LET skip == IF s[i] = "\r" /\ i < Len(s) /\ s[i+1] = "\n" THEN 2 ELSE 1
       IN  <<SubSeq(s, 1, i-1)>> \o SplitLines(SubSeq(s, i+skip, Len(s)))

\* s.lstrip() / s.rstrip() / s.strip()
RECURSIVE LStrip(_)
LStrip(s) == IF s # <<>> /\ Head(s) \in Whitespace THEN LStrip(Tail(s)) ELSE s

RECURSIVE RStrip(_)
RStrip(s) ==
  IF s # <<>> /\ s[Len(s)] \in Whitespace THEN RStrip(SubSeq(s, 1, Len(s)-1)) ELSE s

Strip(s) == LStrip(RStrip(s))

\* s.split() with no separator: runs of whitespace separate, no empty fields.
RECURSIVE SplitWS(_)
SplitWS(s) ==
  LET t == LStrip(s)
      i == FirstIn(t, Whitespace)
  IN  IF t = <<>> THEN <<>>
      ELSE IF i = 0 THEN <<t>>
      ELSE <<SubSeq(t, 1, i-1)>> \o SplitWS(SubSeq(t, i+1, Len(t)))

\* str.lower() on the characters of the model's answer alphabet.
LowerChar(c) ==
  CASE c = "Y" -> "y"
    [] c = "N" -> "n"
    [] c = "E" -> "e"
    [] c = "S" -> "s"
    [] OTHER   -> c

Lower(s) == [i \in 1..Len(s) |-> LowerChar(s[i])]

\* sep.join(list) for a one-character sep.
RECURSIVE Join(_, _)
Join(list, sep) ==
  IF list = <<>> THEN <<>>
  ELSE IF Len(list) = 1 THEN list[1]
  ELSE list[1] \o <<sep>> \o Join(Tail(list), sep)

\* s.startswith(c) / s.endswith(c) for a one-character c.
StartsWith(s, c) == s # <<>> /\ s[1] = c
EndsWith(s, c) == s # <<>> /\ s[Len(s)] = c

\* s[1:-1]
Inner(s) == SubSeq(s, 2, Len(s) - 1)

\* ------------------------------------------------------ program constants
DEFAULT_ENTRIES ==
  << <<"*",".","p","y","c">>,
     <<"*",".","b","a","k">>,
     <<"*",".","z","i","p">>,
     <<"*",".","r","a","r">>,
     <<"*",".","7","z">>,
     <<"*",".","m","p","3">>,
     <<"*",".","w","a","v">>,
     <<"*",".","s","u","b","l","i","m","e","-","w","o","r","k","s","p","a","c","e">>,
     <<".","h","g","/">>,
     <<"b","u","i","l","d","/">>,
     <<"*",".","h","g","i","g","n","o","r","e">>,
     <<"*",".","h","g","t","a","g","s">>,
     <<"*","d","i","s","t","/">>,
     <<"*",".","e","g","g","-","i","n","f","o","/">>,
     <<"t","r","a","c","e","b","a","c","k",".","l","o","g">>,
     <<"_","_","p","y","c","a","c","h","e","_","_","/">>,
     <<"*",".","l","o","g">> >>

\* The character U+0060 (grave accent), which a TLA+ string literal cannot
\* hold: the one character of the model written as a token.
BACKTICK == "U+0060"

\* An Optional value: None is the empty tuple, a present value x is <<x>>.
None == <<>>
Some(x) == <<x>>


\* --------------------------------------------------------- pure functions
\* fetch_template's return value for one outcome of the HTTP GET: the body,
\* stripped and split into lines, or [] when anything raised.
FetchErrorAsLine(outcome) ==
  IF outcome.ok THEN SplitLines(Strip(outcome.body))
  ELSE << <<"#", " ", "e", "r", "r", "o", "r">> >>
fetch_template(outcome) ==
  IF outcome.ok THEN SplitLines(Strip(outcome.body)) ELSE <<>>

\* generate: entries = fetched template lines + DEFAULT_ENTRIES + extra_entries.
AssembleDedup(fetched, extra_entries) ==
  LET fresh(l) == \A i \in 1..Len(DEFAULT_ENTRIES) : DEFAULT_ENTRIES[i] # l
  IN  SelectSeq(fetched, fresh) \o DEFAULT_ENTRIES \o SelectSeq(extra_entries, fresh)
Assemble(fetched, extra_entries) ==
  fetched \o DEFAULT_ENTRIES \o extra_entries

\* generate: content = "\n".join(entries) + "\n"
Content(entries) == Join(entries, "\n") \o <<"\n">>

\* generate: the overwrite prompt is asked iff
\* gitignore_path.exists() and not force and not append.
NeedsPromptIgnoringForce(exists, force, append) == exists /\ ~append
NeedsPrompt(exists, force, append) == exists /\ ~force /\ ~append

\* generate: the prompt's answer lets the write go ahead iff
\* answer.strip().lower() == 'y'.
ProceedsOnPrefix(answer) == StartsWith(Lower(Strip(answer)), "y")
ProceedsAlways(answer) == TRUE
Proceeds(answer) == Lower(Strip(answer)) = <<"y">>

\* generate: the file after a successful write: open("a") and write
\* "\n" + content when append and the file exists, write_text(content) otherwise.
WrittenOverwriting(f, append, content) == [exists |-> TRUE, content |-> content]
Written(f, append, content) ==
  IF append /\ f.exists
  THEN [exists |-> TRUE, content |-> f.content \o <<"\n">> \o content]
  ELSE [exists |-> TRUE, content |-> content]

\* main: a positional entries argument sets args.append = True.
KeptAppend(flag) == flag
ImpliedAppend(flag) == TRUE

\* main: the elif chain that turns the entries string (backslashes already
\* replaced) into the list args.data is extended with.
SplitSemicolonFirst(e) ==
  IF Contains(e, ";") THEN Split(e, ";")
  ELSE IF Contains(e, ",") THEN Split(e, ",")
  ELSE IF Contains(e, "\n") THEN SplitLines(e)
  ELSE IF Contains(e, ":") THEN Split(e, ":")
  ELSE IF Contains(e, "|") THEN Split(e, "|")
  ELSE IF Contains(e, " ") THEN SplitWS(e)
  ELSE IF StartsWith(e, "[") /\ EndsWith(e, "]") THEN Split(Inner(e), ",")
  ELSE IF StartsWith(e, "{") /\ EndsWith(e, "}") THEN Split(Inner(e), ",")
  ELSE IF StartsWith(e, "\"") /\ EndsWith(e, "\"") THEN <<Inner(e)>>
  ELSE IF StartsWith(e, "'") /\ EndsWith(e, "'") THEN <<Inner(e)>>
  ELSE IF StartsWith(e, BACKTICK) /\ EndsWith(e, BACKTICK) THEN <<Inner(e)>>
  ELSE IF Strip(e) # <<>> THEN <<Strip(e)>>
  ELSE <<e>>
SplitEntries(e) ==
  IF Contains(e, ",") THEN Split(e, ",")
  ELSE IF Contains(e, "\n") THEN SplitLines(e)
  ELSE IF Contains(e, ";") THEN Split(e, ";")
  ELSE IF Contains(e, ":") THEN Split(e, ":")
  ELSE IF Contains(e, "|") THEN Split(e, "|")
  ELSE IF Contains(e, " ") THEN SplitWS(e)
  ELSE IF StartsWith(e, "[") /\ EndsWith(e, "]") THEN Split(Inner(e), ",")
  ELSE IF StartsWith(e, "{") /\ EndsWith(e, "}") THEN Split(Inner(e), ",")
  ELSE IF StartsWith(e, "\"") /\ EndsWith(e, "\"") THEN <<Inner(e)>>
  ELSE IF StartsWith(e, "'") /\ EndsWith(e, "'") THEN <<Inner(e)>>
  ELSE IF StartsWith(e, BACKTICK) /\ EndsWith(e, BACKTICK) THEN <<Inner(e)>>
  ELSE IF Strip(e) # <<>> THEN <<Strip(e)>>
  ELSE <<e>>

\* main: "if args.entries:" -- None and the empty string are both falsy.
Truthy(opt) == opt # None /\ opt[1] # <<>>

\* main: "if args.read:" decides between read_gitignore and generate.
WantsReadUnlessEntries(a) == a.read /\ a.entries = None
WantsRead(a) == a.read


\* ------------------------------------------------------------------ state
VARIABLES
  argv,      \* the command line as given: [noArgs, entries, data, template,
             \*   append, force, read]; never changed
  args,      \* the argparse namespace main works on (entries, data, append
             \*   are reassigned by main)
  fs0,       \* <path>/.gitignore as found when the process starts
  fs,        \* <path>/.gitignore now: [exists, content]
  pc,        \* position of the process in main / generate
  fetched,   \* None until fetch_template returned, then Some(its lines)
  entries,   \* generate's local list `entries`
  answer,    \* None until input() returned, then Some(the text typed)
  events,    \* external operations performed, in order
  console,   \* messages printed, in order
  raised     \* exception that left main ("none" if none did)

vars == <<argv, args, fs0, fs, pc, fetched, entries, answer, events, console, raised>>

\* ----------------------------------------------------------------- inputs
\* Positional entries strings of the main specification: the documented
\* examples a,b,c / a b c / [a,b] / "a" / a\b, and the empty string.
ExampleEntries ==
  { <<"a", ",", "b", ",", "c">>,
    <<"a", " ", "b", " ", "c">>,
    <<"[", "a", ",", "b", "]">>,
    <<"\"", "a", "\"">>,
    <<"a", "\\", "b">>,
    <<>> }

\* Characters of the exhaustively enumerated entries strings.
EntryAlphabet ==
  {"a", ",", "\n", ";", ":", "|", " ", "[", "]", "{", "}", "\"", "'", BACKTICK,
   "\\", "\t"}

BoundedEntries == UNION {[1..n -> EntryAlphabet] : n \in 0..MaxLen}

\* -d/--data values: none, or one pattern that repeats a default entry.
DataLists == { <<>>, << <<"*", ".", "l", "o", "g">> >> }

\* -t/--template values: absent, or one template name (nargs="+").
TemplateLists == { <<>>, <<"python">> }

\* What urlopen / read / decode can do: raise, or deliver a body.
FetchOutcomes ==
  { [ok |-> FALSE, err |-> e, body |-> <<>>] :
      e \in {"URLError", "HTTPError", "UnicodeDecodeError"} }
  \cup
  { [ok |-> TRUE, err |-> "none", body |-> b] :
      b \in { <<"#", "p", "\n", "*", ".", "o", "\n">>,
              <<"\n", " ", "a", "\r", "\n", "\n", "*", ".", "l", "o", "g", " ", "\n">>,
              <<" ", "\n">> } }

\* The .gitignore found at start: missing, empty, with and without a final
\* newline.
InitialFiles ==
  { [exists |-> FALSE, content |-> <<>>],
    [exists |-> TRUE,  content |-> <<>>],
    [exists |-> TRUE,  content |-> <<"x", "\n">>],
    [exists |-> TRUE,  content |-> <<"#", "k", "\n", "x">>] }

\* What input() returns: text typed before Enter (None models end of input).
Replies ==
  { None, Some(<<"y">>), Some(<<"Y">>), Some(<<" ", "Y", "\t">>), Some(<<>>),
    Some(<<"n">>), Some(<<"y", "e", "s">>), Some(<<"Y", "E", "S">>) }

\* argparse's result for a command line with no arguments at all.
DefaultArgs ==
  [noArgs |-> TRUE, entries |-> None, data |-> <<>>, template |-> <<>>,
   append |-> FALSE, force |-> FALSE, read |-> FALSE]

CommandLines(entrySet) ==
  { DefaultArgs }
  \cup
  [noArgs : {FALSE}, entries : {None} \cup {Some(e) : e \in entrySet},
   data : DataLists, template : TemplateLists,
   append : BOOLEAN, force : BOOLEAN, read : BOOLEAN]

InitWith(cmds, files) ==
  /\ argv \in cmds
  /\ args = argv
  /\ fs0 \in files
  /\ fs = fs0
  /\ pc = "main"
  /\ fetched = None
  /\ entries = <<>>
  /\ answer = None
  /\ events = <<>>
  /\ console = <<>>
  /\ raised = "none"

Init == InitWith(CommandLines(ExampleEntries), InitialFiles)

\* ---------------------------------------------------------------- actions
\* main: len(sys.argv) == 1 -> print_help(); sys.exit(1)
PrintHelp ==
  /\ pc = "main"
  /\ argv.noArgs
  /\ console' = Append(console, "help")
  /\ pc' = "exit"
  /\ UNCHANGED <<argv, args, fs0, fs, fetched, entries, answer, events, raised>>

\* main: the "if args.entries:" block -- force append, replace backslashes,
\* extend args.data by the split entries.
ParseEntries ==
  /\ pc = "main"
  /\ ~argv.noArgs
  /\ args' = IF Truthy(args.entries)
             THEN LET e == Replace(args.entries[1], "\\", "/")
                  IN  [args EXCEPT !.append = ImpliedAppend(@),
                                   !.entries = Some(e),
                                   !.data = @ \o SplitEntries(e)]
             ELSE args
  /\ pc' = "dispatch"
  /\ UNCHANGED <<argv, fs0, fs, fetched, entries, answer, events, console, raised>>

\* main -> read_gitignore: report a missing file, else read_text and print it
\* (or print the read error).
ReadGitignore ==
  /\ pc = "dispatch"
  /\ WantsRead(args)
  /\ IF ~fs.exists
     THEN /\ console' = Append(console, "not_found")
          /\ events' = events
     ELSE /\ events' = Append(events, "read")
          /\ \E ioError \in BOOLEAN :
               console' = Append(console, IF ioError THEN "read_failed" ELSE "content")
  /\ pc' = "done"
  /\ UNCHANGED <<argv, args, fs0, fs, fetched, entries, answer, raised>>

\* main -> generate with templates: one GET, then the entries are assembled.
GenerateFetch ==
  /\ pc = "dispatch"
  /\ ~WantsRead(args)
  /\ args.template # <<>>
  /\ \E outcome \in FetchOutcomes :
       /\ fetched' = Some(fetch_template(outcome))
       /\ entries' = Assemble(fetch_template(outcome), args.data)
       /\ console' = console \o <<"start">>
                       \o (IF outcome.ok THEN <<>> ELSE <<"fetch_failed">>)
  /\ events' = Append(events, "GET")
  /\ pc' = "assembled"
  /\ UNCHANGED <<argv, args, fs0, fs, answer, raised>>

\* main -> generate without templates: the entries are assembled, no GET.
GenerateNoFetch ==
  /\ pc = "dispatch"
  /\ ~WantsRead(args)
  /\ args.template = <<>>
  /\ entries' = Assemble(<<>>, args.data)
  /\ console' = Append(console, "start")
  /\ pc' = "assembled"
  /\ UNCHANGED <<argv, args, fs0, fs, fetched, answer, events, raised>>

\* generate: the file exists, neither force nor append: ask, and return on
\* any answer but y (input() raises EOFError at end of input).
Prompt ==
  /\ pc = "assembled"
  /\ NeedsPrompt(fs.exists, args.force, args.append)
  /\ events' = Append(events, "prompt")
  /\ \E reply \in Replies :
       /\ answer' = reply
       /\ IF reply = None
          THEN /\ raised' = "EOFError"
               /\ pc' = "crashed"
               /\ console' = console
          ELSE IF Proceeds(reply[1])
          THEN /\ pc' = "write"
               /\ UNCHANGED <<console, raised>>
          ELSE /\ pc' = "done"
               /\ console' = Append(console, "canceled")
               /\ raised' = raised
  /\ UNCHANGED <<argv, args, fs0, fs, fetched, entries>>

\* generate: no prompt is needed.
NoPrompt ==
  /\ pc = "assembled"
  /\ ~NeedsPrompt(fs.exists, args.force, args.append)
  /\ pc' = "write"
  /\ UNCHANGED <<argv, args, fs0, fs, fetched, entries, answer, events, console, raised>>

\* generate: the try block -- append to or (over)write the file; an I/O error
\* is caught and reported, the file left as it was.
Write ==
  /\ pc = "write"
  /\ events' = Append(events, IF args.append /\ fs.exists THEN "append" ELSE "write")
  /\ \E ioError \in BOOLEAN :
       IF ioError
       THEN /\ fs' = fs
            /\ console' = Append(console, "write_failed")
       ELSE /\ fs' = Written(fs, args.append, Content(entries))
            /\ console' = Append(console, "stored")
  /\ pc' = "done"
  /\ UNCHANGED <<argv, args, fs0, fetched, entries, answer, raised>>

Next ==
  \/ PrintHelp
  \/ ParseEntries
  \/ ReadGitignore
  \/ GenerateFetch
  \/ GenerateNoFetch
  \/ Prompt
  \/ NoPrompt
  \/ Write

Spec == Init /\ [][Next]_vars

\* The process is scheduled until it ends: no step waits on anything but the
\* environment's reply, which the actions draw.
FairSpec == Spec /\ WF_vars(Next)

\* The entries normalizer alone, on every entries string up to MaxLen
\* characters (and the documented examples).
InitNorm ==
  InitWith({ c \in CommandLines(BoundedEntries \cup ExampleEntries) :
               ~c.noArgs /\ c.template = <<>> /\ ~c.force /\ ~c.read },
           { f \in InitialFiles : ~f.exists })

SpecNorm == InitNorm /\ [][ParseEntries]_vars


\* ------------------------------------------------- vocabulary of the claims
\* generate was entered (its caller printed the start message).
Generated == console # <<>> /\ console[1] = "start"

\* The write step succeeded (the success panel is the last message).
Stored == console # <<>> /\ console[Len(console)] = "stored"

\* The template fetch was made and failed.
FetchFailed == \E i \in 1..Len(console) : console[i] = "fetch_failed"

Happened(e) == \E i \in 1..Len(events) : events[i] = e

Terminated == pc \in {"done", "exit", "crashed"}

\* T: the lines the fetch returned (empty when no fetch was made).
TemplateLines == IF fetched = None THEN <<>> ELSE fetched[1]

\* joined(newEntries) + "\n" for T ++ DEFAULT_ENTRIES ++ E.
JoinedNew == Join(TemplateLines \o DEFAULT_ENTRIES \o args.data, "\n") \o <<"\n">>

IsPrefix(p, t) == Len(p) <= Len(t) /\ SubSeq(t, 1, Len(p)) = p

NoNewlineIn(lines) == \A i \in 1..Len(lines) : ~Contains(lines[i], "\n")

\* ------------------------------------------------------------------- C1
\* C1: a generate call that writes to a target with no existing .gitignore
\* leaves exactly the lines T ++ DEFAULT_ENTRIES ++ E, in that order, joined by
\* newline and followed by one newline, whatever append and force are: split
\* at the newlines the file gives back every line (none dropped, deduplicated
\* or reordered), and it does not start with a blank line.
C1_FreshFileIsAssembledLines ==
  (Generated /\ ~fs0.exists /\ Stored) =>
    LET lines == TemplateLines \o DEFAULT_ENTRIES \o args.data IN
    /\ fs.exists
    /\ fs.content = Join(lines, "\n") \o <<"\n">>
    /\ NoNewlineIn(lines) => Split(fs.content, "\n") = lines \o << <<>> >>
    /\ fs.content[1] # "\n"

C1_Witness ==
  /\ pc = "done" /\ Generated /\ Stored /\ ~fs0.exists
  /\ argv.append /\ argv.force
  /\ TemplateLines # <<>> /\ args.data # <<>>

\* ------------------------------------------------------------------- C2
\* C2: with an existing .gitignore of content C and append=true the user is
\* not prompted, C stays an unmodified prefix of the file at every moment, and
\* after the write the file is C + "\n" + joined(newEntries) + "\n".
C2_AppendKeepsExisting ==
  (Generated /\ fs0.exists /\ args.append) =>
    /\ ~Happened("prompt")
    /\ answer = None
    /\ IsPrefix(fs0.content, fs.content)
    /\ Stored => fs.content = fs0.content \o <<"\n">> \o JoinedNew

C2_Witness ==
  /\ pc = "done" /\ Generated /\ Stored
  /\ fs0.exists /\ fs0.content # <<>> /\ argv.append /\ argv.force

\* ------------------------------------------------------------------- C3
\* C3: with an existing .gitignore, force=true and append=false the user is
\* not prompted and after the write the file is exactly
\* joined(newEntries) + "\n".
C3_ForceOverwrites ==
  (Generated /\ fs0.exists /\ args.force /\ ~args.append) =>
    /\ ~Happened("prompt")
    /\ answer = None
    /\ Stored => fs.content = JoinedNew

C3_Witness ==
  /\ pc = "done" /\ Generated /\ Stored
  /\ fs0.exists /\ fs0.content # <<>> /\ args.force /\ ~args.append
  /\ ~IsPrefix(fs0.content, fs.content)

\* ------------------------------------------------------------------- C4
\* C4: with an existing .gitignore, force=false and append=false the user is
\* prompted before anything is written; the write goes ahead iff the answer,
\* trimmed and lowercased, is "y" (and then replaces the file); on any other
\* answer -- the empty one, "n", "yes" -- the run is cancelled and the file is
\* unchanged.
C4_PromptDecides ==
  (Generated /\ fs0.exists /\ ~args.force /\ ~args.append) =>
    /\ pc \in {"write", "done", "crashed"} => Happened("prompt")
    /\ ~Happened("prompt") => fs = fs0
    /\ (Happened("prompt") /\ answer # None) =>
         IF Lower(Strip(answer[1])) = <<"y">>
         THEN /\ pc \in {"write", "done"}
              /\ pc = "done" => Happened("write")
              /\ Stored => fs.content = JoinedNew
         ELSE /\ pc = "done"
              /\ console[Len(console)] = "canceled"
              /\ fs = fs0
              /\ ~Happened("write") /\ ~Happened("append")
    /\ (answer # None /\ answer[1] \in {<<>>, <<"n">>, <<"y", "e", "s">>}) => fs = fs0

C4_Witness ==
  /\ pc = "done" /\ Generated /\ fs0.exists /\ ~args.force /\ ~args.append
  /\ answer = Some(<<" ", "Y", "\t">>)
  /\ Stored /\ fs # fs0

\* ------------------------------------------------------------------- C5
\* C5: when templates are requested and the fetch fails, nothing is raised by
\* it, generate goes on to the prompt / write step with exactly
\* DEFAULT_ENTRIES ++ extras, and what a successful write puts into the file
\* is exactly those lines (after the kept content when it appends).
C5_FetchFailureFallsBackToDefaults ==
  FetchFailed =>
    /\ Generated /\ args.template # <<>>
    /\ fetched = Some(<<>>)
    /\ entries = DEFAULT_ENTRIES \o args.data
    /\ raised # "none" => Happened("prompt")
    /\ pc \in {"assembled", "write", "done", "crashed"}
    /\ Stored =>
         fs.content =
           (IF Happened("append") THEN fs0.content \o <<"\n">> ELSE <<>>)
             \o Join(DEFAULT_ENTRIES \o args.data, "\n") \o <<"\n">>

C5_Witness ==
  /\ pc = "done" /\ FetchFailed /\ Stored /\ ~fs0.exists /\ args.data # <<>>

IsSlashed(raw, e) ==
  /\ Len(e) = Len(raw)
  /\ \A i \in 1..Len(raw) : e[i] = (IF raw[i] = "\\" THEN "/" ELSE raw[i])

\* r is s split on the one-character delimiter d: joining r by d gives s
\* back and no field holds d.
IsSplitOn(r, s, d) ==
  /\ r # <<>>
  /\ Join(r, d) = s
  /\ \A i \in 1..Len(r) : ~Contains(r[i], d)

\* r is s split on newline (s holds no other line boundary): as IsSplitOn,
\* without the empty field after a final newline.
IsSplitOnNewline(r, s) ==
  /\ \A i \in 1..Len(r) : ~Contains(r[i], "\n")
  /\ IF EndsWith(s, "\n") THEN Join(r, "\n") \o <<"\n">> = s
                          ELSE r # <<>> /\ Join(r, "\n") = s

\* r is s split on whitespace: the maximal runs of non-whitespace characters
\* of s, in order.
IsSplitOnWhitespace(r, s) ==
  LET black(i) == s[i] \notin Whitespace
      runs == {p \in (1..Len(s)) \X (1..Len(s)) :
                 /\ p[1] <= p[2]
                 /\ \A i \in p[1]..p[2] : black(i)
                 /\ p[1] = 1 \/ ~black(p[1] - 1)
                 /\ p[2] = Len(s) \/ ~black(p[2] + 1)}
  IN  /\ Len(r) = Cardinality(runs)
      /\ \A p \in runs :
           r[Cardinality({q \in runs : q[1] <= p[1]})] = SubSeq(s, p[1], p[2])

\* s is wrapped in the pair open ... close: two distinct positions.
IsPair(s, open, close) == Len(s) >= 2 /\ s[1] = open /\ s[Len(s)] = close

PriorityDelimiters == <<",", "\n", ";", ":", "|", " ">>

\* The rule list of the normalizer, first match wins; r is the list of
\* entries the string e (backslashes replaced) must yield.
FollowsPriorityRules(r, e) ==
  LET D == PriorityDelimiters
      hit == {i \in 1..Len(D) : Contains(e, D[i])}
      first == CHOOSE i \in hit : \A j \in hit : i <= j
  IN  IF hit # {}
      THEN CASE first = 2 -> IsSplitOnNewline(r, e)
             [] first = 6 -> IsSplitOnWhitespace(r, e)
             [] OTHER     -> IsSplitOn(r, e, D[first])
      ELSE IF IsPair(e, "[", "]") \/ IsPair(e, "{", "}")
      THEN IsSplitOn(r, Inner(e), ",")
      ELSE IF IsPair(e, "\"", "\"") \/ IsPair(e, "'", "'") \/ IsPair(e, BACKTICK, BACKTICK)
      THEN r = <<Inner(e)>>
      ELSE IF \E i \in 1..Len(e) : e[i] \notin Whitespace
      THEN r = <<Strip(e)>>
      ELSE r = <<e>>

\* The entries main added to args.data (args.data only ever grows at its end).
AddedEntries == SubSeq(args.data, Len(argv.data) + 1, Len(args.data))

Str_abc == <<"a", ",", "b", ",", "c">>
Str_a_b_c == <<"a", " ", "b", " ", "c">>
Str_bracket_ab == <<"[", "a", ",", "b", "]">>
Str_quoted_a == <<"\"", "a", "\"">>
Str_a_backslash_b == <<"a", "\\", "b">>

\* ------------------------------------------------------------------- C7
\* C7: an entries argument wrapped in [...] or {...} (and holding none of
\* the delimiters newline, semicolon, colon, pipe, space, which the rules
\* before the bracket rule would take) is normalized by stripping the outer
\* bracket pair and splitting the rest on comma; "[a,b]" yields the entries
\* a and b.
C7_BracketsStrippedThenSplit ==
  (pc = "dispatch" /\ argv.entries # None) =>
    LET raw == argv.entries[1]
        e == args.entries[1]
    IN
    /\ ( /\ IsPair(e, "[", "]") \/ IsPair(e, "{", "}")
         /\ \A d \in {"\n", ";", ":", "|", " "} : ~Contains(e, d) ) =>
         /\ IsPrefix(argv.data, args.data)
         /\ IsSplitOn(AddedEntries, Inner(e), ",")
    /\ raw = Str_bracket_ab => AddedEntries = << <<"a">>, <<"b">> >>

\* ------------------------------------------------------------------- C8
\* C8 as stated: for every positional entries string s, the backslashes are
\* replaced by "/" and then exactly one rule, the first that matches in the
\* order comma, newline, semicolon, colon, pipe, space, bracket pair, quote
\* pair, trimmed literal, untrimmed literal, yields the entries added to
\* args.data.
C8_AsStated ==
  (pc = "dispatch" /\ argv.entries # None) =>
    /\ args.entries # None
    /\ IsSlashed(argv.entries[1], args.entries[1])
    /\ IsPrefix(argv.data, args.data)
    /\ FollowsPriorityRules(AddedEntries, args.entries[1])

\* C8 amended: the same for every non-empty s, where a lone quote character
\* counts as a quote pair around the empty entry; the empty string adds no
\* entry at all. The documented examples come out as a,b,c / a,b,c / a / a/b.
C8_PriorityRulesOnNonEmpty ==
  (pc = "dispatch" /\ argv.entries # None) =>
    LET raw == argv.entries[1] IN
    /\ args.entries # None
    /\ IsPrefix(argv.data, args.data)
    /\ raw = <<>> => args = argv
    /\ raw # <<>> =>
         LET e == args.entries[1] IN
         /\ IsSlashed(raw, e)
         /\ IF e \in {<<"\"">>, <<"'">>, <<BACKTICK>>}
            THEN AddedEntries = << <<>> >>
            ELSE FollowsPriorityRules(AddedEntries, e)
    /\ raw \in {Str_abc, Str_a_b_c} => AddedEntries = << <<"a">>, <<"b">>, <<"c">> >>
    /\ raw = Str_quoted_a => AddedEntries = << <<"a">> >>
    /\ raw = Str_a_backslash_b => AddedEntries = << <<"a", "/", "b">> >>

\* A string where three delimiters of different priority meet: the comma
\* splits, the semicolon and the backslash-turned-slash stay inside.
C8_Witness ==
  /\ pc = "dispatch"
  /\ argv.entries = Some(<<";", ",", "\\">>)
  /\ AddedEntries = << <<";">>, <<"/">> >>

\* ------------------------------------------------------------------- C9
\* C9: with the display flag set nothing is generated and nothing written:
\* no fetch, no prompt, no write, the file is at every moment what it was
\* (missing stays missing), and a missing file is reported as not found with
\* no operation on the file at all.
C9_ReadNeverWrites ==
  argv.read =>
    /\ fs = fs0
    /\ ~Generated
    /\ fetched = None /\ answer = None /\ entries = <<>>
    /\ \A i \in 1..Len(events) : events[i] = "read"
    /\ pc \in {"main", "dispatch", "done"}
    /\ (pc = "done" /\ ~fs0.exists) =>
         /\ console = <<"not_found">>
         /\ events = <<>>
         /\ ~fs.exists
    /\ (pc = "done" /\ fs0.exists) => events = <<"read">>

C9_Witness ==
  /\ pc = "done" /\ argv.read /\ ~fs0.exists
  /\ Truthy(argv.entries) /\ argv.template # <<>> /\ argv.force
  /\ console = <<"not_found">>

\* ------------------------------------------------------------------ C10
Rank(e) ==
  CASE e = "GET" -> 1
    [] e = "prompt" -> 2
    [] e \in {"write", "append"} -> 3
    [] OTHER -> 0

\* At most one GET, then at most one prompt, then at most one write.
LinearRun ==
  ~argv.read =>
    /\ \A i \in 1..Len(events) : Rank(events[i]) > 0
    /\ \A i, j \in 1..Len(events) : i < j => Rank(events[i]) < Rank(events[j])
    /\ args.template = <<>> => ~Happened("GET")
    /\ (answer # None /\ Lower(Strip(answer[1])) # <<"y">>) =>
         ~Happened("write") /\ ~Happened("append") /\ fs = fs0

\* C10: every run is one linear sequence that ends: at most one GET (none
\* without template names, no retry after a failure), then at most one
\* prompt, then at most one write; no write follows a declined prompt.
C10_LinearAndTerminates == [](LinearRun) /\ <>Terminated

C10_Witness ==
  /\ pc = "done"
  /\ FetchFailed
  /\ events = <<"GET", "prompt", "write">>

====
